---- MODULE Spec2Model ----
(***************************************************************************)
(* Nurse Ally mock backend (project/server/mock-api.js): the triage        *)
(* classifier, the clinic directory, the conversation store and the        *)
(* request handlers that use them.                                         *)
(*                                                                         *)
(* Text.  A JavaScript string whose characters matter (a chat message, a   *)
(* keyword, a location, an address) is a sequence of one-character         *)
(* strings, so that toLowerCase, includes and + act character by           *)
(* character.  Template text that is only ever copied is kept as one       *)
(* element per literal, so a rendered reply is a sequence whose elements   *)
(* are literals and characters in the order the template emits them.       *)
(***************************************************************************)
EXTENDS Integers, Sequences, FiniteSets, TLC

VARIABLES conversationStore, origin, attempted, inflight, response, nextId, call,
          upload,
          uiMessages, inputMessage, isLoading, userProfile, uploadedFile,
          fetching, sends, afterReset

\* the chat and reset side of the server
chatVars == <<conversationStore, origin, attempted, inflight, response, nextId>>

\* the last upload answered
uploadVars == <<upload>>

\* the state of the App component, the fetch it awaits and the log of its sends
clientVars ==
  <<uiMessages, inputMessage, isLoading, userProfile, uploadedFile, fetching,
    sends, afterReset>>

vars == <<chatVars, call, uploadVars, clientVars>>

(***************************************************************************)
(* Bounds of the model.                                                    *)
(***************************************************************************)
\* fragments joined into one text
MaxParts == 2

\* requests sent in one behaviour of the server
MaxRequests == 3

\* requests that have arrived and are not yet handled
MaxInFlight == 2

(***************************************************************************)
(* String primitives.                                                      *)
(***************************************************************************)
UpperCase == <<"A","B","C","D","E","F","G","H","I","J","K","L","M",
               "N","O","P","Q","R","S","T","U","V","W","X","Y","Z">>

LowerCase == <<"a","b","c","d","e","f","g","h","i","j","k","l","m",
               "n","o","p","q","r","s","t","u","v","w","x","y","z">>

\* String.prototype.toLowerCase on one character
lowerChar(c) ==
  IF \E i \in DOMAIN UpperCase : UpperCase[i] = c
  THEN LowerCase[CHOOSE i \in DOMAIN UpperCase : UpperCase[i] = c]
  ELSE c

\* String.prototype.toLowerCase
toLowerCase(s) == [i \in DOMAIN s |-> lowerChar(s[i])]

\* String.prototype.includes: k occurs in s as a contiguous run
includes(s, k) ==
  \E i \in 0..(Len(s) - Len(k)) : SubSeq(s, i + 1, i + Len(k)) = k

\* Array.prototype.some(keyword => s.includes(keyword))
someIncluded(keywords, s) ==
  \E j \in DOMAIN keywords : includes(s, keywords[j])

\* String.prototype.endsWith (used by the properties only)
endsWith(s, k) ==
  /\ Len(k) <= Len(s)
  /\ SubSeq(s, Len(s) - Len(k) + 1, Len(s)) = k

(***************************************************************************)
(* Property lookup on an object literal.  conversationStore and clinics    *)
(* are plain objects, so obj[key] finds an own property, else a property   *)
(* inherited from Object.prototype, else undefined.                        *)
(***************************************************************************)
ObjectPrototypeKeys ==
  {"constructor", "toString", "valueOf", "hasOwnProperty", "__proto__"}

\* obj[key]: the own value, an inherited (truthy, non-array) value, or undefined
getProperty(obj, key) ==
  IF key \in DOMAIN obj THEN [kind |-> "own", value |-> obj[key]]
  ELSE IF key \in ObjectPrototypeKeys THEN [kind |-> "inherited", value |-> key]
  ELSE [kind |-> "undefined", value |-> key]

(***************************************************************************)
(* mockTriageSymptoms                                                      *)
(***************************************************************************)
\* urgencyKeywords.emergency
emergencyKeywords ==
  << <<"c","h","e","s","t"," ","p","a","i","n">>,
     <<"d","i","f","f","i","c","u","l","t","y"," ","b","r","e","a","t","h","i","n","g">>,
     <<"s","e","v","e","r","e"," ","b","l","e","e","d","i","n","g">>,
     <<"u","n","c","o","n","s","c","i","o","u","s">>,
     <<"s","t","r","o","k","e">>,
     <<"h","e","a","r","t"," ","a","t","t","a","c","k">> >>

\* urgencyKeywords.high
highKeywords ==
  << <<"s","e","v","e","r","e"," ","p","a","i","n">>,
     <<"h","i","g","h"," ","f","e","v","e","r">>,
     <<"v","o","m","i","t","i","n","g"," ","b","l","o","o","d">>,
     <<"s","e","v","e","r","e"," ","h","e","a","d","a","c","h","e">>,
     <<"d","i","f","f","i","c","u","l","t","y"," ","s","w","a","l","l","o","w","i","n","g">> >>

\* urgencyKeywords.medium
mediumKeywords ==
  << <<"f","e","v","e","r">>,
     <<"p","e","r","s","i","s","t","e","n","t"," ","c","o","u","g","h">>,
     <<"m","o","d","e","r","a","t","e"," ","p","a","i","n">>,
     <<"r","a","s","h">>,
     <<"n","a","u","s","e","a">> >>

\* urgencyKeywords.low
lowKeywords ==
  << <<"m","i","l","d"," ","h","e","a","d","a","c","h","e">>,
     <<"m","i","n","o","r"," ","c","u","t">>,
     <<"c","o","l","d"," ","s","y","m","p","t","o","m","s">>,
     <<"f","a","t","i","g","u","e">> >>

\* the entries with the tiers declared the other way round
urgencyKeywordsLowFirst ==
  << [level |-> "low", keywords |-> lowKeywords],
     [level |-> "medium", keywords |-> mediumKeywords],
     [level |-> "high", keywords |-> highKeywords],
     [level |-> "emergency", keywords |-> emergencyKeywords] >>

\* the entries of urgencyKeywords, in declaration order (Object.entries)
urgencyKeywords ==
  << [level |-> "emergency", keywords |-> emergencyKeywords],
     [level |-> "high", keywords |-> highKeywords],
     [level |-> "medium", keywords |-> mediumKeywords],
     [level |-> "low", keywords |-> lowKeywords] >>

\* the recommendations ternary of the matched branch
recommendationsFor(level) ==
  IF level = "emergency"
  THEN <<"Call 911 immediately", "Go to nearest emergency room">>
  ELSE IF level = "high"
  THEN <<"Seek immediate medical attention", "Visit urgent care or emergency room">>
  ELSE IF level = "medium"
  THEN <<"Schedule appointment with primary care",
         "Consider urgent care if symptoms worsen">>
  ELSE <<"Monitor symptoms", "Rest and self-care",
         "Contact doctor if symptoms persist">>

\* the object returned from inside the loop for the entry `level`
matchedResult(level) ==
  [urgency_level   |-> level,
   reasoning       |-> <<"Based on the symptoms described, this appears to be ",
                         level, " urgency.">>,
   recommendations |-> recommendationsFor(level)]

\* the object returned after the loop, had it copied the medium tier
defaultResultMedium ==
  [urgency_level   |-> "medium",
   reasoning       |-> <<"Symptoms appear to be minor and manageable.">>,
   recommendations |-> <<"Schedule appointment with primary care",
                         "Consider urgent care if symptoms worsen">>]

\* the object returned after the loop
defaultResult ==
  [urgency_level   |-> "low",
   reasoning       |-> <<"Symptoms appear to be minor and manageable.">>,
   recommendations |-> <<"Monitor symptoms", "Rest and self-care",
                         "Contact doctor if symptoms persist">>]

RECURSIVE triageLoop(_, _, _)
\* for (const [level, keywords] of Object.entries(urgencyKeywords)), from entry i
triageLoop(entries, lowerSymptoms, i) ==
  IF i > Len(entries) THEN defaultResult
  ELSE IF someIncluded(entries[i].keywords, lowerSymptoms)
       THEN matchedResult(entries[i].level)
       ELSE triageLoop(entries, lowerSymptoms, i + 1)

\* the classifier without the toLowerCase of line 41
mockTriageSymptomsCaseSensitive(symptoms) ==
  triageLoop(urgencyKeywords, symptoms, 1)

mockTriageSymptoms(symptoms) ==
  triageLoop(urgencyKeywords, toLowerCase(symptoms), 1)

(***************************************************************************)
(* mockFindClinic                                                          *)
(***************************************************************************)
\* the clinics object literal: one record per tier, address = street + location
clinicsFor(location) ==
  [emergency |->
     << [name |-> "City General Hospital Emergency Room",
         address |-> <<"1","2","3"," ","M","a","i","n"," ","S","t",","," ">> \o location,
         phone |-> "(555) 911-1234", type |-> "Emergency Room",
         wait_time |-> "15-30 minutes", accepts_insurance |-> TRUE] >>,
   high |->
     << [name |-> "QuickCare Urgent Care",
         address |-> <<"4","5","6"," ","O","a","k"," ","A","v","e",","," ">> \o location,
         phone |-> "(555) 555-0123", type |-> "Urgent Care",
         wait_time |-> "30-45 minutes", accepts_insurance |-> TRUE] >>,
   medium |->
     << [name |-> "Family Health Center",
         address |-> <<"7","8","9"," ","P","i","n","e"," ","S","t",","," ">> \o location,
         phone |-> "(555) 555-0456", type |-> "Primary Care",
         wait_time |-> "Same day appointments available",
         accepts_insurance |-> TRUE] >>,
   low |->
     << [name |-> "Community Health Clinic",
         address |-> <<"3","2","1"," ","E","l","m"," ","S","t",","," ">> \o location,
         phone |-> "(555) 555-0789", type |-> "Primary Care",
         wait_time |-> "Next day appointments",
         accepts_insurance |-> TRUE] >>]

\* clinics[urgency] || clinics.low: an own property is the tier's array; an
\* inherited property is truthy and is returned as it is; only undefined
\* falls through to clinics.low.  The value is kept with its kind, "own"
\* for an array of clinic records.
clinicsOrLow(clinics, urgency) ==
  LET found == getProperty(clinics, urgency)
  IN  IF found.kind = "undefined"
      THEN [kind |-> "own", value |-> clinics.low]
      ELSE found

mockFindClinic(location, urgency) ==
  [clinics       |-> clinicsOrLow(clinicsFor(location), urgency),
   location      |-> location,
   urgency_level |-> urgency]

(***************************************************************************)
(* Values of a JSON request body.  A field is undefined (absent), null, a  *)
(* number or a string; v holds the characters of a string and the digits   *)
(* of a number.                                                            *)
(***************************************************************************)
undefined == [t |-> "undefined", v |-> <<>>]

null == [t |-> "null", v |-> <<>>]

number(digits) == [t |-> "number", v |-> digits]

string(chars) == [t |-> "string", v |-> chars]

\* ToBoolean: undefined, null, 0 and '' are falsy
truthy(x) ==
  \/ x.t = "string" /\ x.v # <<>>
  \/ x.t = "number" /\ x.v # <<"0">>

\* a destructuring default applies to undefined only
withDefault(x, dflt) == IF x.t = "undefined" THEN dflt ELSE x

\* profile = {}: an object without a location
emptyProfile == [t |-> "object", location |-> undefined]

\* user_id = 'default'
defaultUserId == [t |-> "string", v |-> "default"]

(***************************************************************************)
(* The reply templates of POST /api/chat.  NL is the line break of a       *)
(* template literal; the bullet and the warning sign are written in ASCII. *)
(***************************************************************************)
NL == "\n"

bullet == "(bullet) "

greetingReply ==
  <<"Hello! I'm Nurse Ally, your virtual nursing assistant. I'm here to help you understand your symptoms and guide you to appropriate care. What symptoms are you experiencing today?">>

painIntro ==
  "I understand you're experiencing pain. Based on your symptoms, I've assessed this as "

emergencyWarning ==
  "If this is a medical emergency, please call 911 immediately."

genericDisclaimer ==
  "Please remember that I'm a virtual assistant and cannot replace professional medical evaluation."

feverIntro ==
  "I see you're experiencing a fever. This is concerning and I want to help you get the right care. Based on your symptoms, I've assessed this as "

feverClosing ==
  "In the meantime, make sure to stay hydrated and rest. If your fever is very high (over 103 F) or you're experiencing difficulty breathing, please seek immediate medical attention."

insuranceReply ==
  <<"I can help you understand your insurance coverage! If you have your insurance card or policy document, you can upload it and I'll help you understand your benefits. You can also tell me your insurance provider and I'll give you general guidance about finding in-network providers.">>

clinicIntro == "I can help you find healthcare providers in "

clinicClosing ==
  "Would you like me to help you understand what type of care might be best for your specific symptoms?"

fallbackReply ==
  <<"Thank you for sharing that with me. I'm here to help assess your symptoms and guide you to appropriate care. ",
    NL, NL, "Could you tell me more about:", NL,
    bullet, "What specific symptoms you're experiencing?", NL,
    bullet, "How long you've had these symptoms?", NL,
    bullet, "How severe they are on a scale of 1-10?", NL, NL,
    "This information will help me better understand your situation and provide appropriate guidance. Remember, if you're experiencing a medical emergency, please call 911 immediately.">>

RECURSIVE join(_, _)
\* Array.prototype.join(sep) on rendered lines
join(lines, sep) ==
  IF lines = <<>> THEN <<>>
  ELSE IF Len(lines) = 1 THEN lines[1]
  ELSE lines[1] \o sep \o join(Tail(lines), sep)

\* recommendations.map(rec => `(bullet) ${rec}`).join('\n')
recommendationLines(recs) ==
  join([i \in DOMAIN recs |-> <<bullet, recs[i]>>], <<NL>>)

\* the clinic line of the pain reply: name - address - phone (wait_time)
painClinicLines(clinics) ==
  join([i \in DOMAIN clinics |->
          <<bullet, clinics[i].name, " - ">> \o clinics[i].address
            \o <<" - ", clinics[i].phone, " (", clinics[i].wait_time, ")">>],
       <<NL>>)

\* the clinic block of the clinic reply: name, address, phone, wait_time
clinicBlocks(clinics) ==
  join([i \in DOMAIN clinics |->
          <<bullet, clinics[i].name, NL, "  ">> \o clinics[i].address
            \o <<NL, "  ", clinics[i].phone, NL, "  ", clinics[i].wait_time>>],
       <<NL, NL>>)

\* profile.location || 'your area'
locationOf(profile) ==
  IF truthy(profile.location) THEN profile.location.v ELSE <<"y","o","u","r"," ","a","r","e","a">>

\* the last line of the pain reply with the warning tied to the high tier
painClosingHigh(urgency_level) ==
  IF urgency_level = "high"
  THEN <<"(warning sign) ", emergencyWarning>>
  ELSE <<genericDisclaimer>>

\* the last line of the pain reply
painClosing(urgency_level) ==
  IF urgency_level = "emergency"
  THEN <<"(warning sign) ", emergencyWarning>>
  ELSE <<genericDisclaimer>>

painReply(message, profile) ==
  LET triage   == mockTriageSymptoms(message)
      location == locationOf(profile)
      clinics  == mockFindClinic(location, triage.urgency_level)
  IN  <<painIntro, triage.urgency_level, " urgency. ">> \o triage.reasoning
        \o <<NL, NL, "My recommendations:", NL>>
        \o recommendationLines(triage.recommendations)
        \o <<NL, NL, "Here are some nearby healthcare options in ">>
        \o location \o <<":", NL>>
        \o painClinicLines(clinics.clinics.value)
        \o <<NL, NL>> \o painClosing(triage.urgency_level)

feverReply(message) ==
  LET triage == mockTriageSymptoms(message)
  IN  <<feverIntro, triage.urgency_level, " urgency.", NL, NL>>
        \o triage.reasoning
        \o <<NL, NL, "My recommendations:", NL>>
        \o recommendationLines(triage.recommendations)
        \o <<NL, NL, feverClosing>>

clinicReply(profile) ==
  LET location == locationOf(profile)
      clinics  == mockFindClinic(location, "medium")
  IN  <<clinicIntro>> \o location \o <<". Here are some options:", NL, NL>>
        \o clinicBlocks(clinics.clinics.value)
        \o <<NL, NL, clinicClosing>>

(***************************************************************************)
(* POST /api/chat: the if / else-if chain and the handler                  *)
(***************************************************************************)
greetingKeywords == << <<"h","e","l","l","o">>, <<"h","i">> >>

painKeywords == << <<"p","a","i","n">>, <<"h","u","r","t">>, <<"a","c","h","e">> >>

feverKeywords == << <<"f","e","v","e","r">>, <<"t","e","m","p","e","r","a","t","u","r","e">> >>

insuranceKeywords == << <<"i","n","s","u","r","a","n","c","e">>, <<"c","o","v","e","r","a","g","e">> >>

clinicKeywords == << <<"c","l","i","n","i","c">>, <<"d","o","c","t","o","r">>, <<"a","p","p","o","i","n","t","m","e","n","t">> >>

\* the chain with the fever test moved before the pain test
replyBranchFeverFirst(lowerMessage) ==
  IF someIncluded(greetingKeywords, lowerMessage) THEN "greeting"
  ELSE IF someIncluded(feverKeywords, lowerMessage) THEN "fever"
  ELSE IF someIncluded(painKeywords, lowerMessage) THEN "pain"
  ELSE IF someIncluded(insuranceKeywords, lowerMessage) THEN "insurance"
  ELSE IF someIncluded(clinicKeywords, lowerMessage) THEN "clinic"
  ELSE "fallback"

\* which arm of the chain runs for lowerMessage
replyBranch(lowerMessage) ==
  IF someIncluded(greetingKeywords, lowerMessage) THEN "greeting"
  ELSE IF someIncluded(painKeywords, lowerMessage) THEN "pain"
  ELSE IF someIncluded(feverKeywords, lowerMessage) THEN "fever"
  ELSE IF someIncluded(insuranceKeywords, lowerMessage) THEN "insurance"
  ELSE IF someIncluded(clinicKeywords, lowerMessage) THEN "clinic"
  ELSE "fallback"

\* the arms that read profile.location, a TypeError when profile is null
readsProfile(branch) == branch \in {"pain", "clinic"}

\* lines 165-214 for a string message: the reply, or threw when an arm
\* dereferences a null profile
composeReply(message, profile) ==
  LET lowerMessage == toLowerCase(message)
      branch       == replyBranch(lowerMessage)
  IN  IF readsProfile(branch) /\ profile.t = "null"
      THEN [threw |-> TRUE, reply |-> <<>>]
      ELSE [threw |-> FALSE,
            reply |-> CASE branch = "greeting"  -> greetingReply
                        [] branch = "pain"      -> painReply(message, profile)
                        [] branch = "fever"     -> feverReply(message)
                        [] branch = "insurance" -> insuranceReply
                        [] branch = "clinic"    -> clinicReply(profile)
                        [] OTHER                -> fallbackReply]

\* the guard written as message === undefined
messageIsUndefined(message) == message.t = "undefined"

\* if (!message): the request is refused before the store is touched
messageMissing(message) == ~truthy(message)

\* if (!conversationStore[user_id]) conversationStore[user_id] = []
\* An inherited property is truthy, so no array is created for it.
initHistory(store, key) ==
  IF getProperty(store, key).kind = "undefined"
  THEN [k \in DOMAIN store \cup {key} |-> IF k = key THEN <<>> ELSE store[k]]
  ELSE store

\* conversationStore[user_id].push is a function only on an own array
canPush(store, key) == getProperty(store, key).kind = "own"

\* conversationStore[user_id].push(entry)
push(store, key, entry) == [store EXCEPT ![key] = Append(@, entry)]

\* the outcome of the handler's try block for one request body: the store
\* it leaves, the pushes whose statement was reached (line 162, line 217),
\* the pushes that took effect, and the response.  thread_user is the
\* user_id inside thread_id; its Date.now() suffix is read by nothing here.
chatOutcome(store, body) ==
  LET message   == body.message
      profile   == withDefault(body.profile, emptyProfile)
      key       == withDefault(body.user_id, defaultUserId).v
      userEntry == [role |-> "user", content |-> message]
      store1    == initHistory(store, key)
      store2    == push(store1, key, userEntry)
      composed  == composeReply(message.v, profile)
      asstEntry == [role |-> "assistant", content |-> string(composed.reply)]
      err500    == [status |-> 500, error |-> "Internal server error",
                    reply |-> <<>>, ok |-> "", message |-> "", thread_user |-> ""]
  IN  IF messageMissing(message)
      THEN [store |-> store, reached |-> <<>>, pushed |-> <<>>, key |-> key,
            res |-> [status |-> 400, error |-> "Message is required",
                     reply |-> <<>>, ok |-> "", message |-> "", thread_user |-> ""]]
      ELSE IF ~canPush(store1, key)
      THEN [store |-> store1, reached |-> <<userEntry>>, pushed |-> <<>>,
            key |-> key, res |-> err500]
      ELSE IF message.t # "string"
      THEN [store |-> store2, reached |-> <<userEntry>>,
            pushed |-> <<userEntry>>, key |-> key, res |-> err500]
      ELSE IF composed.threw
      THEN [store |-> store2, reached |-> <<userEntry>>,
            pushed |-> <<userEntry>>, key |-> key, res |-> err500]
      ELSE [store |-> push(store2, key, asstEntry),
            reached |-> <<userEntry, asstEntry>>,
            pushed |-> <<userEntry, asstEntry>>, key |-> key,
            res |-> [status |-> 200, error |-> "", reply |-> composed.reply,
                     ok |-> "success", message |-> "", thread_user |-> key]]

(***************************************************************************)
(* POST /api/reset-conversation                                            *)
(***************************************************************************)
\* a reset that empties the array and keeps the key
resetStoreKeepsKey(store, key) ==
  IF key \in DOMAIN store THEN [store EXCEPT ![key] = <<>>] ELSE store

\* if (conversationStore[user_id]) delete conversationStore[user_id]
\* delete removes an own property and is a no-op on an inherited one
resetStore(store, key) ==
  IF getProperty(store, key).kind = "undefined"
  THEN store
  ELSE [k \in DOMAIN store \ {key} |-> store[k]]

resetOutcome(store, body) ==
  LET key == withDefault(body.user_id, defaultUserId).v
  IN  [store |-> resetStore(store, key), key |-> key,
       res |-> [status |-> 200, error |-> "", reply |-> <<>>, ok |-> "success",
                message |-> "Conversation reset successfully",
                thread_user |-> ""]]

(***************************************************************************)
(* Inputs.                                                                 *)
(***************************************************************************)
RECURSIVE Texts(_, _)
\* the texts made of at most n fragments of pool, the empty text included
Texts(pool, n) ==
  IF n = 0 THEN {<<>>}
  ELSE LET shorter == Texts(pool, n - 1)
       IN  shorter \cup {s \o f : s \in shorter, f \in pool}

\* symptom descriptions given to mockTriageSymptoms
SymptomFragments ==
  { <<"c","h","e","s","t"," ","p","a","i","n">>, <<"C","H","E","S","T"," ","P","A","I","N">>, <<"s","t","r","o","k","e">>, <<"s","e","v","e","r","e"," ">>, <<"p","a","i","n">>,
    <<"h","e","a","d","a","c","h","e">>, <<"h","i","g","h"," ","f","e","v","e","r">>, <<"f","e","v","e","r">>, <<"r","a","s","h">>, <<"m","i","l","d"," ","h","e","a","d","a","c","h","e">>,
    <<"f","a","t","i","g","u","e">>, <<"I"," ","f","e","e","l"," ">> }

\* chat messages
MessageFragments ==
  { <<"I"," ","h","a","v","e"," ">>, <<"c","h","e","s","t"," ","p","a","i","n">>, <<"C","H","E","S","T"," ","P","A","I","N">>, <<"H","e","l","l","o"," ">>, <<"t","h","i","s"," ">>,
    <<"f","e","v","e","r">>, <<"s","t","r","o","k","e">>, <<"s","e","v","e","r","e"," ","p","a","i","n">>, <<"m","y"," ","l","e","g"," ","h","u","r","t","s">>,
    <<"m","i","l","d"," ","h","e","a","d","a","c","h","e">>, <<"i","n","s","u","r","a","n","c","e">>, <<"d","o","c","t","o","r">>, <<"r","a","s","h">>, <<"o","k">> }

\* locations
LocationFragments == { <<"A","u","s","t","i","n">>, <<","," ">>, <<"T","X">> }

\* urgency arguments: the four tiers, two unknown names, two names that
\* Object.prototype defines
Urgencies ==
  {"emergency", "high", "medium", "low", "critical", "undefined",
   "constructor", "toString"}

\* message fields of a chat body when every text is tried
AllMessages ==
  {undefined, null, number(<<"0">>), number(<<"5">>)}
    \cup {string(s) : s \in Texts(MessageFragments, MaxParts)}

\* message fields of a chat body when the store is followed over several requests
FewMessages ==
  {undefined, number(<<"5">>), string(<<"c","h","e","s","t"," ","p","a","i","n">>)}

Profiles ==
  {undefined, null,
   [t |-> "object", location |-> string(<<>>)],
   [t |-> "object", location |-> string(<<"A","u","s","t","i","n">>)]}

FewProfiles == {undefined}

UserIds ==
  {undefined, [t |-> "string", v |-> "demo_user"],
   [t |-> "string", v |-> "constructor"]}

\* the property keys UserIds address
UserKeys == {withDefault(u, defaultUserId).v : u \in UserIds}

(***************************************************************************)
(* POST /api/upload.  multer (upload.single('file'), fileSize limit) runs  *)
(* before the handler: a file over the limit or under another field name   *)
(* is a MulterError, which the error handler at the end of the file        *)
(* answers.  content stands for the bytes of the file, which nothing reads.*)
(***************************************************************************)
\* limits: { fileSize: 16 * 1024 * 1024 }
fileSizeLimit == 16 * 1024 * 1024

\* a request without a file part
noFile ==
  [present |-> FALSE, field |-> "", mimetype |-> "", size |-> 0,
   originalname |-> <<>>, content |-> ""]

mockInsuranceCheck(filename) ==
  [plan_name    |-> "Health Plus Premium Plan",
   provider     |-> "Blue Cross Blue Shield",
   member_id    |-> "ABC123456789",
   group_number |-> "GRP001",
   coverage_details |->
     [primary_care       |-> "$25 copay",
      specialist         |-> "$50 copay",
      urgent_care        |-> "$75 copay",
      emergency_room     |-> "$300 copay",
      prescription_drugs |-> "$10/$30/$60 copay"],
   key_benefits |->
     <<"Preventive care covered 100%", "Annual deductible: $1,500",
       "Out-of-pocket maximum: $6,000", "Network coverage nationwide">>,
   filename     |-> filename]

\* no summary in the body
noSummary == [plan_name |-> ""]

\* the upload is accepted when its name ends with .pdf
isPdfByName(file) == endsWith(toLowerCase(file.originalname), <<".","p","d","f">>)

\* req.file.mimetype !== 'application/pdf', negated
isPdf(file) == file.mimetype = "application/pdf"

\* the MulterError multer raises for the file, "" when it raises none
multerError(file) ==
  IF ~file.present THEN ""
  ELSE IF file.field # "file" THEN "LIMIT_UNEXPECTED_FILE"
  ELSE IF file.size > fileSizeLimit THEN "LIMIT_FILE_SIZE"
  ELSE ""

\* app.use((err, req, res, next) => ...)
errorHandler(code) ==
  IF code = "LIMIT_FILE_SIZE"
  THEN [status |-> 413, error |-> "File too large. Maximum size is 16MB.",
        ok |-> "", filename |-> <<>>, insurance_summary |-> noSummary,
        message |-> ""]
  ELSE [status |-> 500, error |-> "Internal server error",
        ok |-> "", filename |-> <<>>, insurance_summary |-> noSummary,
        message |-> ""]

\* the handler of POST /api/upload, req.file being the file multer accepted
uploadHandler(file) ==
  IF ~file.present
  THEN [status |-> 400, error |-> "No file provided", ok |-> "",
        filename |-> <<>>, insurance_summary |-> noSummary, message |-> ""]
  ELSE IF ~isPdf(file)
  THEN [status |-> 400, error |-> "Only PDF files are allowed", ok |-> "",
        filename |-> <<>>, insurance_summary |-> noSummary, message |-> ""]
  ELSE [status |-> 200, error |-> "", ok |-> "success",
        filename |-> file.originalname,
        insurance_summary |-> mockInsuranceCheck(file.originalname),
        message |-> "Insurance document processed successfully"]

\* the route: multer, then the handler or the error handler
uploadOutcome(file) ==
  IF multerError(file) # "" THEN errorHandler(multerError(file))
  ELSE uploadHandler(file)

\* file names
NameFragments == { <<"c","a","r","d">>, <<".","p","d","f">>, <<"S","c","a","n"," ","1">> }

\* the file parts a client may send
Files ==
  {[present |-> TRUE, field |-> f, mimetype |-> m, size |-> s,
    originalname |-> n, content |-> c] :
     f \in {"file", "document"},
     m \in {"application/pdf", "image/png", "text/plain"},
     s \in {0, 1024, fileSizeLimit, fileSizeLimit + 1},
     n \in Texts(NameFragments, MaxParts),
     c \in {"%PDF-1.7 ...", "not a pdf"}}

noUpload == [req |-> noFile, answered |-> FALSE, res |-> errorHandler("")]


(***************************************************************************)
(* The chat client (src/App.tsx).  A UI message is its text and sender;    *)
(* its id and timestamp come from the clock and are read by nothing here.  *)
(* The emoji of the canned texts are left out.                             *)
(***************************************************************************)
\* the message the list starts with, and resetConversation restores
greetingMessage ==
  [id |-> "1", sender |-> "assistant",
   text |-> <<"Hello! I'm Nurse Ally, your virtual nurse assistant. I'm here to help you with symptom assessment, finding nearby clinics, and understanding your healthcare options. How are you feeling today?">>]

\* useState<UserProfile>({ location: '' })
initialProfile == [location |-> <<>>, insurance_summary |-> "none"]

RECURSIVE trimStart(_)
\* leading blanks removed
trimStart(s) ==
  IF s # <<>> /\ Head(s) = " " THEN trimStart(Tail(s)) ELSE s

RECURSIVE trimEnd(_)
\* trailing blanks removed
trimEnd(s) ==
  IF s # <<>> /\ s[Len(s)] = " " THEN trimEnd(SubSeq(s, 1, Len(s) - 1)) ELSE s

\* String.prototype.trim
trim(s) == trimEnd(trimStart(s))

mockHeadacheFever ==
  <<"I understand you're experiencing a headache and fever. These symptoms could indicate various conditions. Let me assess the urgency:\n\n**Symptom Assessment**: Medium urgency\n\n**Recommendation**: I recommend scheduling an appointment with your primary care physician within 24-48 hours. In the meantime, you can:\n\n(bullet) Rest and stay hydrated\n(bullet) Take over-the-counter pain relievers as directed\n(bullet) Monitor your temperature\n\nIf your fever rises above 103 F or you develop severe symptoms, please seek immediate medical attention. Would you like me to help you find nearby clinics?">>

mockChestPain ==
  <<"**URGENT**: Chest pain can be a serious symptom that requires immediate medical attention.\n\n**Recommendation**: Please call 911 immediately or go to the nearest emergency room right away.\n\nDo not drive yourself - have someone drive you or call an ambulance. Chest pain could indicate a heart attack or other serious cardiac condition that needs immediate evaluation.\n\nIs someone available to help you get to the hospital right now?">>

mockClinics ==
  <<"I'd be happy to help you find nearby healthcare providers! Based on your location, here are some options:\n\n**Nearby Clinics**:\n\n**QuickCare Urgent Care**\n789 Quick St\n(555) 555-0123\nWait time: 30-60 minutes\nWalk-ins welcome\n\n**Family Health Center**\n555 Health Dr\n(555) 555-0200\nSame day appointments available\nAppointment required\n\nWould you like me to provide more details about any of these options or help you with insurance coverage information?">>

mockDefault ==
  <<"Thank you for sharing that with me. I'm here to help assess your symptoms and guide you to appropriate care. Could you tell me more about what you're experiencing? For example:\n\n(bullet) What symptoms are you having?\n(bullet) When did they start?\n(bullet) How severe are they on a scale of 1-10?\n(bullet) Have you tried any treatments?\n\nThe more details you can provide, the better I can assist you with finding the right level of care.">>

generateMockResponse(userInput) ==
  LET input == toLowerCase(userInput)
  IN  IF includes(input, <<"h","e","a","d","a","c","h","e">>) \/ includes(input, <<"f","e","v","e","r">>)
      THEN mockHeadacheFever
      ELSE IF includes(input, <<"c","h","e","s","t"," ","p","a","i","n">>) THEN mockChestPain
      ELSE IF \/ includes(input, <<"c","l","i","n","i","c">>)
              \/ includes(input, <<"d","o","c","t","o","r">>)
              \/ includes(input, <<"a","p","p","o","i","n","t","m","e","n","t">>)
      THEN mockClinics
      ELSE mockDefault

\* the message sendMessage appends for the user
userMessage(input) == [id |-> "Date.now()", sender |-> "user", text |-> input]

\* the message sendMessage appends for the assistant
assistantMessage(text) ==
  [id |-> "Date.now() + 1", sender |-> "assistant", text |-> text]

\* JSON.stringify({message, profile, user_id: 'demo_user'}) as the server reads it
chatBody(id, input, profile) ==
  [id |-> id, kind |-> "chat", message |-> string(input),
   profile |-> [t |-> "object", location |-> string(profile.location)],
   user_id |-> [t |-> "string", v |-> "demo_user"]]

\* the message handleFileUpload appends for a PDF
uploadMessage(name) ==
  [id |-> "Date.now()", sender |-> "assistant",
   text |-> <<"I've received your insurance document: \"">> \o name
              \o <<"\"\n\n**Processing Complete**\n\n**Insurance Summary**:\n(bullet) Plan: Health Plus Plan\n(bullet) Coverage: Emergency care, urgent care, primary care covered\n(bullet) Copay: $25 for primary care visits\n(bullet) Network: In-network providers recommended\n\nYour insurance information has been added to your profile. I can now provide more specific recommendations based on your coverage!">>]

\* no fetch awaited
notFetching == [active |-> FALSE, id |-> 0, input |-> <<>>]

\* useState<File | null>(null)
noPick == [name |-> <<>>, type |-> ""]

\* what the user may type
TypedInputs ==
  { <<" "," ">>, <<"I"," ","h","a","v","e"," ","c","h","e","s","t"," ","p","a","i","n">>, <<" ","o","k"," ">> }

\* the files the user may pick: a PDF and a picture
PickedFiles ==
  {[name |-> <<"c","a","r","d",".","p","d","f">>, type |-> "application/pdf"],
   [name |-> <<"c","a","r","d",".","p","n","g">>, type |-> "image/png"]}


(***************************************************************************)
(* State.  conversationStore maps the own keys of the store object to      *)
(* their arrays.  inflight holds the requests that have arrived and whose  *)
(* handler has not run yet; response is the last response sent.  origin    *)
(* and attempted are history variables: origin[k][i] is the request that   *)
(* pushed conversationStore[k][i], attempted[k] the entries of the push    *)
(* statements reached for k since k was last reset; response.prior is the  *)
(* number of entries the request's key held when its handler started.      *)
(* call is the last call of a pure helper with its result.  upload is the  *)
(* last upload with its answer.  uiMessages, inputMessage, isLoading,      *)
(* userProfile (the profile state) and uploadedFile are the state of the   *)
(* App component and fetching the fetch its sendMessage awaits.  sends and *)
(* afterReset are history variables: sends[i] records what the i-th        *)
(* accepted send requested and appended, afterReset that neither a send    *)
(* nor an upload has followed the last resetConversation.                  *)
(***************************************************************************)
emptyStore == [k \in {} |-> <<>>]

noRequest ==
  [id |-> 0, kind |-> "none", message |-> undefined, profile |-> undefined,
   user_id |-> undefined]

noResponse ==
  [req |-> noRequest, prior |-> 0,
   res |-> [status |-> 0, error |-> "", reply |-> <<>>, ok |-> "",
            message |-> "", thread_user |-> ""]]

noCall ==
  [fn |-> "none", symptoms |-> <<>>, location |-> <<>>, urgency |-> "",
   result |-> <<>>]

Init ==
  /\ conversationStore = emptyStore
  /\ origin = emptyStore
  /\ attempted = [k \in UserKeys |-> <<>>]
  /\ inflight = {}
  /\ response = noResponse
  /\ nextId = 1
  /\ call = noCall
  /\ upload = noUpload
  /\ uiMessages = <<greetingMessage>>
  /\ inputMessage = <<>>
  /\ isLoading = FALSE
  /\ userProfile = initialProfile
  /\ uploadedFile = noPick
  /\ fetching = notFetching
  /\ sends = <<>>
  /\ afterReset = FALSE

(***************************************************************************)
(* Requests arrive.                                                        *)
(***************************************************************************)
Arrive(req) ==
  /\ nextId <= MaxRequests
  /\ Cardinality(inflight) < MaxInFlight
  /\ inflight' = inflight \cup {req}
  /\ nextId' = nextId + 1
  /\ UNCHANGED <<conversationStore, origin, attempted, response, call,
                  uploadVars, clientVars>>

\* a client posts to /api/chat
SendChat(messages, profiles) ==
  \E m \in messages, p \in profiles, u \in UserIds :
    Arrive([id |-> nextId, kind |-> "chat", message |-> m, profile |-> p,
            user_id |-> u])

\* a client posts to /api/reset-conversation
SendReset ==
  \E u \in UserIds :
    Arrive([id |-> nextId, kind |-> "reset", message |-> undefined,
            profile |-> undefined, user_id |-> u])

(***************************************************************************)
(* Handlers.  Neither handler awaits, so each runs to completion on the    *)
(* event loop: one step per request, in any order of the arrived requests. *)
(***************************************************************************)
\* how many entries the store holds under key, 0 without an own array
stored(key) ==
  IF key \in DOMAIN conversationStore THEN Len(conversationStore[key]) ELSE 0

\* origin after the handler of request id pushed n entries under key
originAfter(store, key, id, n) ==
  [k \in DOMAIN store |->
     LET before == IF k \in DOMAIN origin THEN origin[k] ELSE <<>>
     IN  IF k = key THEN before \o [i \in 1..n |-> id] ELSE before]

HandleChat ==
  \E r \in inflight :
    /\ r.kind = "chat"
    /\ LET out == chatOutcome(conversationStore, r)
       IN  /\ conversationStore' = out.store
           /\ origin' = originAfter(out.store, out.key, r.id, Len(out.pushed))
           /\ attempted' = [attempted EXCEPT ![out.key] = @ \o out.reached]
           /\ response' = [req |-> r, prior |-> stored(out.key), res |-> out.res]
    /\ inflight' = inflight \ {r}
    /\ UNCHANGED <<nextId, call, uploadVars, clientVars>>

HandleReset ==
  \E r \in inflight :
    /\ r.kind = "reset"
    /\ LET out == resetOutcome(conversationStore, r)
       IN  /\ conversationStore' = out.store
           /\ origin' = originAfter(out.store, out.key, r.id, 0)
           /\ attempted' = [attempted EXCEPT ![out.key] = <<>>]
           /\ response' = [req |-> r, prior |-> stored(out.key), res |-> out.res]
    /\ inflight' = inflight \ {r}
    /\ UNCHANGED <<nextId, call, uploadVars, clientVars>>

\* the server under a few kinds of request, followed over several requests
Next ==
  \/ SendChat(FewMessages, FewProfiles)
  \/ SendReset
  \/ HandleChat
  \/ HandleReset

Spec == Init /\ [][Next]_vars

\* the first request a fresh server answers, over every message and profile
FirstRequest == inflight = {} /\ response = noResponse

NextReply ==
  \/ FirstRequest /\ SendChat(AllMessages, Profiles)
  \/ HandleChat

SpecReply == Init /\ [][NextReply]_vars

(***************************************************************************)
(* The pure helpers called on their own.                                   *)
(***************************************************************************)
CallTriage ==
  \E s \in Texts(SymptomFragments, MaxParts) :
    /\ call = noCall
    /\ call' = [fn |-> "mockTriageSymptoms", symptoms |-> s, location |-> <<>>,
                urgency |-> "", result |-> mockTriageSymptoms(s)]
    /\ UNCHANGED <<chatVars, uploadVars, clientVars>>

CallFindClinic ==
  \E l \in Texts(LocationFragments, MaxParts), u \in Urgencies :
    /\ call = noCall
    /\ call' = [fn |-> "mockFindClinic", symptoms |-> <<>>, location |-> l,
                urgency |-> u, result |-> mockFindClinic(l, u)]
    /\ UNCHANGED <<chatVars, uploadVars, clientVars>>

NextFn == CallTriage \/ CallFindClinic

SpecFn == Init /\ [][NextFn]_vars

(***************************************************************************)
(* POST /api/upload answered.                                              *)
(***************************************************************************)
Upload ==
  \E f \in Files \cup {noFile} :
    /\ ~upload.answered
    /\ upload' = [req |-> f, answered |-> TRUE, res |-> uploadOutcome(f)]
    /\ UNCHANGED <<chatVars, call, clientVars>>

NextUpload == Upload

SpecUpload == Init /\ [][NextUpload]_vars

(***************************************************************************)
(* The chat client.  Each event handler and each continuation of           *)
(* sendMessage runs to completion; the request of a send is in inflight    *)
(* until the server's handler or the network takes it.                     *)
(***************************************************************************)
\* messages the list may hold (a bound of the model)
MaxShown == 5

\* sends the client makes (a bound of the model)
MaxSends == 2

\* how many more messages the list may take, one kept for an awaited reply
room == MaxShown - Len(uiMessages) - (IF fetching.active THEN 1 ELSE 0)

\* onChange of the message input, which is disabled while loading
TypeInput ==
  \E text \in TypedInputs :
    /\ ~isLoading
    /\ inputMessage' = text
    /\ UNCHANGED <<chatVars, call, uploadVars, uiMessages, isLoading,
                   userProfile, uploadedFile, fetching, sends, afterReset>>

\* the reply without the test of response.ok
assistantReplyAlwaysData(ok, reply, input) == reply

\* assistantReply: data.reply when response.ok, else generateMockResponse
assistantReply(ok, reply, input) ==
  IF ok THEN reply ELSE generateMockResponse(input)

\* sendMessage up to its await: the early return, the user message, the
\* cleared input, the loading flag and the one fetch
SendMessage ==
  /\ ~(trim(inputMessage) = <<>> \/ isLoading)
  /\ Len(sends) < MaxSends
  /\ room >= 2
  /\ uiMessages' = Append(uiMessages, userMessage(inputMessage))
  /\ inputMessage' = <<>>
  /\ isLoading' = TRUE
  /\ inflight' = inflight \cup {chatBody(nextId, inputMessage, userProfile)}
  /\ nextId' = nextId + 1
  /\ fetching' = [active |-> TRUE, id |-> nextId, input |-> inputMessage]
  /\ sends' = Append(sends,
                [id |-> nextId, input |-> inputMessage,
                 appended |-> <<userMessage(inputMessage)>>,
                 outcome |-> "pending", reply |-> <<>>, loading |-> TRUE])
  /\ afterReset' = FALSE
  /\ UNCHANGED <<conversationStore, origin, attempted, response, call,
                 uploadVars, userProfile, uploadedFile>>

\* sendMessage after its await: the assistant message, then finally
settle(outcome, ok, reply) ==
  LET message == assistantMessage(assistantReply(ok, reply, fetching.input))
      n       == Len(sends)
  IN  /\ uiMessages' = Append(uiMessages, message)
      /\ isLoading' = FALSE
      /\ fetching' = notFetching
      /\ sends' = [sends EXCEPT ![n].appended = Append(@, message),
                                ![n].outcome = outcome,
                                ![n].reply = reply,
                                ![n].loading = FALSE]
      /\ UNCHANGED <<inputMessage, userProfile, uploadedFile, afterReset>>

\* the server has answered the awaited request
answered == fetching.active /\ response.req.id = fetching.id

\* the awaited request is still on its way
awaited == {r \in inflight : fetching.active /\ r.id = fetching.id}

\* response.ok: data.reply is the reply
FetchOk ==
  /\ answered
  /\ response.res.status = 200
  /\ settle("ok", TRUE, response.res.reply)
  /\ UNCHANGED <<chatVars, call, uploadVars>>

\* a response that is not OK: the server's own error status, or the answer
\* of whatever stands in front of a backend that is not running
FetchNotOk ==
  /\ fetching.active
  /\ IF answered THEN response.res.status # 200 ELSE awaited # {}
  /\ settle("notOk", FALSE, <<>>)
  /\ inflight' = inflight \ awaited
  /\ UNCHANGED <<conversationStore, origin, attempted, response, nextId, call,
                 uploadVars>>

\* fetch or response.json() rejects: the catch block
FetchThrows ==
  /\ fetching.active
  /\ settle("throws", FALSE, <<>>)
  /\ inflight' = inflight \ awaited
  /\ UNCHANGED <<conversationStore, origin, attempted, response, nextId, call,
                 uploadVars>>

\* handleFileUpload: a file that is no PDF is refused with an alert
HandleFileUpload ==
  \E file \in PickedFiles :
    /\ room >= 1
    /\ IF file.type # "application/pdf"
       THEN UNCHANGED clientVars
       ELSE /\ uploadedFile' = file
            /\ uiMessages' = Append(uiMessages, uploadMessage(file.name))
            /\ userProfile' = [userProfile EXCEPT
                                 !.insurance_summary = "Health Plus Plan"]
            /\ afterReset' = FALSE
            /\ UNCHANGED <<inputMessage, isLoading, fetching, sends>>
    /\ UNCHANGED <<chatVars, call, uploadVars>>

resetConversation ==
  /\ uiMessages' = <<greetingMessage>>
  /\ userProfile' = initialProfile
  /\ uploadedFile' = noPick
  /\ afterReset' = TRUE
  /\ UNCHANGED <<chatVars, call, uploadVars, inputMessage, isLoading,
                 fetching, sends>>

NextClient ==
  \/ TypeInput
  \/ SendMessage
  \/ HandleChat
  \/ FetchOk
  \/ FetchNotOk
  \/ FetchThrows
  \/ HandleFileUpload
  \/ resetConversation

\* a fetch settles in the end, with a response or with a rejection
SpecClient ==
  /\ Init
  /\ [][NextClient]_vars
  /\ WF_vars(FetchOk \/ FetchNotOk \/ FetchThrows)


(***************************************************************************)
(* Properties.  The tiers and keyword groups below are written as the      *)
(* specification states them, apart from the definitions above.            *)
(***************************************************************************)
Tiers == <<"emergency", "high", "medium", "low">>

TierSet == {Tiers[i] : i \in DOMAIN Tiers}

\* the keyword list of a tier, whatever its place among the entries
keywordsOf(level) ==
  (CHOOSE e \in {urgencyKeywords[i] : i \in DOMAIN urgencyKeywords} :
     e.level = level).keywords

\* the places in Tiers of the tiers with a keyword in the lower-cased text
tierHits(text) ==
  {i \in DOMAIN Tiers : someIncluded(keywordsOf(Tiers[i]), toLowerCase(text))}

\* the least element of a non-empty set of numbers
least(S) == CHOOSE i \in S : \A j \in S : i <= j

triageCalled == call.fn = "mockTriageSymptoms"

\* C1: mockTriageSymptoms returns the first tier, in the order emergency,
\* high, medium, low, that has a keyword occurring in the lower-cased text;
\* a text with an emergency keyword such as 'chest pain' is emergency
\* whatever lower-tier keywords it also holds.
C1_FirstMatchingTier ==
  triageCalled =>
    LET hits == tierHits(call.symptoms)
    IN  /\ hits # {} => call.result.urgency_level = Tiers[least(hits)]
        /\ includes(toLowerCase(call.symptoms), <<"c","h","e","s","t"," ","p","a","i","n">>)
             => call.result.urgency_level = "emergency"

\* an emergency keyword together with a low-tier keyword, classified emergency
C1_Witness ==
  /\ triageCalled
  /\ includes(toLowerCase(call.symptoms), <<"c","h","e","s","t"," ","p","a","i","n">>)
  /\ includes(toLowerCase(call.symptoms), <<"m","i","l","d"," ","h","e","a","d","a","c","h","e">>)
  /\ call.result.urgency_level = "emergency"

clinicCalled == call.fn = "mockFindClinic"

\* the low tier's clinic for a location
lowClinic(location) ==
  [name |-> "Community Health Clinic",
   address |-> <<"3","2","1"," ","E","l","m"," ","S","t",","," ">> \o location,
   phone |-> "(555) 555-0789", type |-> "Primary Care",
   wait_time |-> "Next day appointments", accepts_insurance |-> TRUE]

\* C8: for every location and every valid tier mockFindClinic returns exactly
\* one clinic whose address ends with ', <location>' and echoes location and
\* tier; for every urgency that is not one of the four tiers it returns the
\* low tier's clinic.
C8_OneClinicOrLow ==
  clinicCalled =>
    LET r == call.result
    IN  /\ r.location = call.location
        /\ r.urgency_level = call.urgency
        /\ r.clinics.kind = "own"
        /\ Len(r.clinics.value) = 1
        /\ endsWith(r.clinics.value[1].address, <<","," ">> \o call.location)
        /\ call.urgency \notin TierSet
             => r.clinics.value = <<lowClinic(call.location)>>

\* C8, the part that holds: the valid tiers, and the urgencies that name no
\* property at all
C8_ValidOrUnknown ==
  clinicCalled /\ call.urgency \notin ObjectPrototypeKeys =>
    LET r == call.result
    IN  /\ r.location = call.location
        /\ r.urgency_level = call.urgency
        /\ r.clinics.kind = "own"
        /\ Len(r.clinics.value) = 1
        /\ endsWith(r.clinics.value[1].address, <<","," ">> \o call.location)
        /\ call.urgency \notin TierSet
             => r.clinics.value = <<lowClinic(call.location)>>

\* C9: the classifier is total and deterministic (its result is a function
\* of the text alone, and always one of the four tiers); a text in which no
\* keyword of any tier occurs is low, with the generic reasoning string and
\* the low tier's recommendations.
C9_TotalDefaultLow ==
  triageCalled =>
    /\ call.result.urgency_level \in TierSet
    /\ tierHits(call.symptoms) = {}
         => call.result =
              [urgency_level   |-> "low",
               reasoning       |-> <<"Symptoms appear to be minor and manageable.">>,
               recommendations |-> <<"Monitor symptoms", "Rest and self-care",
                                     "Contact doctor if symptoms persist">>]

\* a non-empty text without any keyword, classified low by default
C9_Witness ==
  /\ triageCalled
  /\ call.symptoms # <<>>
  /\ tierHits(call.symptoms) = {}
  /\ call.result.urgency_level = "low"
  /\ call.result.reasoning = <<"Symptoms appear to be minor and manageable.">>

(***************************************************************************)
(* Properties of POST /api/chat, read off the last response.               *)
(***************************************************************************)
chatAnswered == response.req.kind = "chat"

\* the request's message is a string
stringMessage == response.req.message.t = "string"

\* the lower-cased message of the answered request
lowered == toLowerCase(response.req.message.v)

\* the store key the answered request addresses
answeredKey == withDefault(response.req.user_id, defaultUserId).v

\* the request meets none of the handler's failure paths other than the
\* message check: its profile is not null and its user_id names no property
\* of Object.prototype
wellFormed ==
  /\ response.req.profile.t # "null"
  /\ answeredKey \notin ObjectPrototypeKeys

\* the last element of a reply
lastOf(reply) == reply[Len(reply)]

\* the reply names the tier it assessed
namesTier(reply, tier) ==
  \E i \in 1..(Len(reply) - 1) :
    reply[i] \in {painIntro, feverIntro} /\ reply[i + 1] = tier

\* a template sentence occurs in the reply
hasSentence(reply, sentence) == \E i \in DOMAIN reply : reply[i] = sentence

\* the keyword groups of the composer in their order
Groups ==
  << [name |-> "greeting",  keywords |-> << <<"h","e","l","l","o">>, <<"h","i">> >>],
     [name |-> "pain",      keywords |-> << <<"p","a","i","n">>, <<"h","u","r","t">>, <<"a","c","h","e">> >>],
     [name |-> "fever",     keywords |-> << <<"f","e","v","e","r">>, <<"t","e","m","p","e","r","a","t","u","r","e">> >>],
     [name |-> "insurance", keywords |-> << <<"i","n","s","u","r","a","n","c","e">>, <<"c","o","v","e","r","a","g","e">> >>],
     [name |-> "clinic",
      keywords |-> << <<"c","l","i","n","i","c">>, <<"d","o","c","t","o","r">>, <<"a","p","p","o","i","n","t","m","e","n","t">> >>] >>

\* the places in Groups of the groups with a keyword in text
groupHits(text) ==
  {i \in DOMAIN Groups : someIncluded(Groups[i].keywords, text)}

\* the group that wins for text, fallback when none matches
winningGroup(text) ==
  IF groupHits(text) = {} THEN "fallback"
  ELSE Groups[least(groupHits(text))].name

\* the template a reply was rendered from, by its opening literal
templateOf(reply) ==
  CASE reply = greetingReply  -> "greeting"
    [] reply[1] = painIntro   -> "pain"
    [] reply[1] = feverIntro  -> "fever"
    [] reply = insuranceReply -> "insurance"
    [] reply[1] = clinicIntro -> "clinic"
    [] reply = fallbackReply  -> "fallback"
    [] OTHER                  -> "none"

\* C4 as stated: every chat message containing 'chest pain' is answered with
\* status success and a reply that names the tier emergency and contains the
\* emergency warning sentence.
C4_ChestPainAlwaysEmergency ==
  chatAnswered /\ stringMessage /\ wellFormed
    /\ includes(response.req.message.v, <<"c","h","e","s","t"," ","p","a","i","n">>)
  => /\ response.res.status = 200
     /\ response.res.ok = "success"
     /\ namesTier(response.res.reply, "emergency")
     /\ hasSentence(response.res.reply, emergencyWarning)

\* C4 amended: a string message whose lower-cased text contains 'chest pain'
\* and neither 'hello' nor 'hi', sent with a profile that is not null under a
\* user_id that names no property of Object.prototype, is answered with
\* status success and the pain reply, which names the tier emergency and
\* ends with the emergency warning sentence.
C4_ChestPainWithoutGreeting ==
  chatAnswered /\ stringMessage /\ wellFormed
    /\ includes(lowered, <<"c","h","e","s","t"," ","p","a","i","n">>)
    /\ ~includes(lowered, <<"h","e","l","l","o">>)
    /\ ~includes(lowered, <<"h","i">>)
  => /\ response.res.status = 200
     /\ response.res.ok = "success"
     /\ response.res.reply[1] = painIntro
     /\ response.res.reply[2] = "emergency"
     /\ lastOf(response.res.reply) = emergencyWarning

\* 'I have chest pain' answered with the emergency reply
C4_Witness ==
  /\ chatAnswered
  /\ response.req.message = string(<<"I"," ","h","a","v","e"," ","c","h","e","s","t"," ","p","a","i","n">>)
  /\ response.res.status = 200
  /\ namesTier(response.res.reply, "emergency")
  /\ lastOf(response.res.reply) = emergencyWarning

\* C5: the composer picks exactly one branch per message, testing the groups
\* greeting, pain, fever, insurance, clinic in that order on the lower-cased
\* message, the first group with a match winning; when none matches the
\* fallback template is returned.
C5_FirstGroupWins ==
  chatAnswered /\ stringMessage =>
    /\ response.res.status = 200
         => templateOf(response.res.reply) = winningGroup(lowered)
    /\ response.req.message.v # <<>> /\ wellFormed
         => /\ response.res.status = 200
            /\ winningGroup(lowered) = "fallback"
                 => response.res.reply = fallbackReply

\* a message with a pain and a fever keyword and no greeting gets the pain reply
C5_Witness ==
  /\ chatAnswered
  /\ response.res.status = 200
  /\ groupHits(lowered) = {2, 3}
  /\ response.res.reply[1] = painIntro

\* the tier of the answered message, found as the specification states it
tierOfMessage ==
  IF tierHits(response.req.message.v) = {} THEN "low"
  ELSE Tiers[least(tierHits(response.req.message.v))]

\* C6 as stated: whenever the triage tier of a chat message is emergency the
\* reply contains the emergency warning sentence in place of the generic
\* disclaimer; for every other tier the generic disclaimer is used and the
\* warning sentence is absent.  Read for the replies that run triage.
C6_WarningIffEmergency ==
  chatAnswered /\ response.res.status = 200
    /\ templateOf(response.res.reply) \in {"pain", "fever"}
  => IF tierOfMessage = "emergency"
     THEN /\ hasSentence(response.res.reply, emergencyWarning)
          /\ ~hasSentence(response.res.reply, genericDisclaimer)
     ELSE /\ hasSentence(response.res.reply, genericDisclaimer)
          /\ ~hasSentence(response.res.reply, emergencyWarning)

\* C6 amended: the pain reply ends with the emergency warning sentence when
\* the triage tier of the message is emergency and with the generic
\* disclaimer for every other tier, never with both; the fever reply, which
\* also runs triage, ends with its own fixed advice for every tier and has
\* neither sentence.
C6_PainClosingByTier ==
  chatAnswered /\ response.res.status = 200 =>
    LET reply == response.res.reply
    IN  /\ templateOf(reply) = "pain" =>
             IF tierOfMessage = "emergency"
             THEN /\ lastOf(reply) = emergencyWarning
                  /\ ~hasSentence(reply, genericDisclaimer)
             ELSE /\ lastOf(reply) = genericDisclaimer
                  /\ ~hasSentence(reply, emergencyWarning)
        /\ templateOf(reply) = "fever" =>
             /\ lastOf(reply) = feverClosing
             /\ ~hasSentence(reply, genericDisclaimer)
             /\ ~hasSentence(reply, emergencyWarning)

\* a pain reply of the emergency tier, written in capitals, ending with the
\* warning sentence
C6_Witness ==
  /\ chatAnswered
  /\ response.res.status = 200
  /\ templateOf(response.res.reply) = "pain"
  /\ tierOfMessage = "emergency"
  /\ response.req.message.v # lowered
  /\ lastOf(response.res.reply) = emergencyWarning

\* C10: a chat request without a message, the empty string included, is
\* answered with HTTP 400 and {error: 'Message is required'}; no reply is
\* composed and the store is not touched.
C10_MissingMessageRefused ==
  chatAnswered
    /\ (response.req.message.t = "undefined" \/ response.req.message = string(<<>>))
  => /\ response.res.status = 400
     /\ response.res.error = "Message is required"
     /\ response.res.reply = <<>>
     /\ response.res.ok = ""
     /\ stored(answeredKey) = response.prior
     /\ response.prior = 0 => answeredKey \notin DOMAIN conversationStore

\* the empty-string message refused with 400
C10_Witness ==
  /\ chatAnswered
  /\ response.req.message = string(<<>>)
  /\ response.res.status = 400

(***************************************************************************)
(* Properties of the conversation store.                                   *)
(***************************************************************************)
\* get_history: the array stored under key, empty without one
history(key) ==
  IF key \in DOMAIN conversationStore THEN conversationStore[key] ELSE <<>>

\* C2: after any sequence of chat and reset requests the stored history of
\* every user_id, its session created on the first chat for it, is exactly
\* the messages appended for that user since its last reset, in insertion
\* order.
C2_HistoryIsAppendLog ==
  \A k \in UserKeys : history(k) = attempted[k]

\* the body of a reset request for key
resetBody(key) ==
  [id |-> 0, kind |-> "reset", message |-> undefined, profile |-> undefined,
   user_id |-> [t |-> "string", v |-> key]]

resetAnswered == response.req.kind = "reset"

\* C3: a reset request succeeds and leaves the user's key absent, whether or
\* not a session existed; resetting again gives the same store and the same
\* success response.
C3_ResetIdempotent ==
  /\ resetAnswered =>
       /\ response.res.status = 200
       /\ response.res.ok = "success"
       /\ response.res.message = "Conversation reset successfully"
       /\ answeredKey \notin DOMAIN conversationStore
       /\ history(answeredKey) = <<>>
  /\ \A k \in UserKeys :
       LET once  == resetOutcome(conversationStore, resetBody(k))
           twice == resetOutcome(once.store, resetBody(k))
       IN  /\ k \notin DOMAIN once.store
           /\ once.res.status = 200
           /\ twice.store = once.store
           /\ twice.res = once.res

\* a reset answered for a user whose session held a user message and a reply
C3_Witness ==
  /\ resetAnswered
  /\ response.prior >= 2
  /\ response.res.status = 200
  /\ answeredKey \notin DOMAIN conversationStore

\* C7: under any interleaving of chat and reset requests, requests for one
\* user_id append in a serialized order: each request's user message is
\* immediately followed by that same request's assistant reply, with no lost
\* or interleaved entries.
C7_UserThenOwnReply ==
  \A k \in DOMAIN conversationStore :
    \A i \in DOMAIN conversationStore[k] :
      conversationStore[k][i].role = "user" =>
        /\ i < Len(conversationStore[k])
        /\ conversationStore[k][i + 1].role = "assistant"
        /\ origin[k][i + 1] = origin[k][i]

\* C7, the part that holds: a handler changes no history but that of the
\* user_id its request names.
C7_OtherUsersUntouched ==
  [][\A r \in inflight : r \notin inflight' =>
       \A k \in UserKeys \ {withDefault(r.user_id, defaultUserId).v} :
         history(k)' = history(k)]_vars

\* the roles stored under key, in order
rolesOf(key) == [i \in 1..stored(key) |-> conversationStore[key][i].role]

\* C13: a chat request answered with an error status (400, 500) leaves the
\* conversation store unchanged; consequently every stored history has even
\* length and alternates user message, assistant reply.
C13_ErrorLeavesStore ==
  /\ chatAnswered /\ response.res.status \in {400, 500}
       => stored(answeredKey) = response.prior
  /\ \A k \in DOMAIN conversationStore :
       /\ stored(k) % 2 = 0
       /\ \A i \in 1..stored(k) :
            rolesOf(k)[i] = IF i % 2 = 1 THEN "user" ELSE "assistant"

\* C13, the part that holds: a request refused with 400 leaves the store as
\* it was, and so does a 500 for a user_id that names an inherited property.
C13_RefusedLeavesStore ==
  chatAnswered
    /\ (response.res.status = 400 \/ answeredKey \in ObjectPrototypeKeys)
  => stored(answeredKey) = response.prior

(***************************************************************************)
(* The upload route.                                                       *)
(***************************************************************************)
\* the answers the route's handler gives
refusedWith(res, error) == res.status = 400 /\ res.error = error

\* the success body: the fixed summary, the file's own name in both places
succeededFor(res, file) ==
  /\ res.status = 200
  /\ res.ok = "success"
  /\ res.filename = file.originalname
  /\ res.insurance_summary.filename = file.originalname
  /\ [res.insurance_summary EXCEPT !.filename = <<>>] = mockInsuranceCheck(<<>>)

\* what the answer must be by the file's mimetype alone
byMimetype(res, file) ==
  IF file.mimetype # "application/pdf"
  THEN refusedWith(res, "Only PDF files are allowed")
  ELSE succeededFor(res, file)

\* C12, as stated: an upload without a file is answered 400 'No file
\* provided', every file whose mimetype is not application/pdf is answered 400
\* 'Only PDF files are allowed', and every PDF, whatever its name or content,
\* is answered success with the fixed summary and its original filename.
C12_UploadByMimetype ==
  upload.answered =>
    IF ~upload.req.present
    THEN refusedWith(upload.res, "No file provided")
    ELSE byMimetype(upload.res, upload.req)

\* C12, amended: the same for every file sent in the form field 'file' and
\* smaller than the 16 MB limit; a file in that field that is over the limit
\* is answered 413 whatever its mimetype, and no answer but the success one
\* carries a filename or a summary.
C12_UploadWithinLimits ==
  upload.answered =>
    /\ ~upload.req.present => refusedWith(upload.res, "No file provided")
    /\ upload.req.present /\ upload.req.field = "file"
         /\ upload.req.size < fileSizeLimit
       => byMimetype(upload.res, upload.req)
    /\ upload.req.present /\ upload.req.field = "file"
         /\ upload.req.size > fileSizeLimit
       => upload.res.status = 413
    /\ upload.res.status # 200
       => upload.res.filename = <<>> /\ upload.res.insurance_summary = noSummary

\* a PDF by mimetype whose name and content are not a PDF's is accepted
C12_Witness ==
  /\ upload.answered
  /\ upload.req.field = "file"
  /\ upload.req.size = 1024
  /\ upload.req.mimetype = "application/pdf"
  /\ upload.req.originalname = <<"S","c","a","n"," ","1","c","a","r","d">>
  /\ upload.req.content = "not a pdf"
  /\ succeededFor(upload.res, upload.req)

(***************************************************************************)
(* The chat client.                                                        *)
(***************************************************************************)
\* the assistant text a settled send must have shown
expectedText(s) ==
  IF s.outcome = "ok" THEN s.reply ELSE generateMockResponse(s.input)

\* what a send has appended to the list, by how far it has come
sentRight(i) ==
  LET s == sends[i]
  IN  /\ s.id = i
      /\ trim(s.input) # <<>>
      /\ IF s.outcome = "pending"
         THEN /\ i = Len(sends)
              /\ s.appended = <<userMessage(s.input)>>
         ELSE /\ s.outcome \in {"ok", "notOk", "throws"}
              /\ s.appended = <<userMessage(s.input),
                                assistantMessage(expectedText(s))>>
              /\ ~s.loading

\* a send awaits its answer
pending == sends # <<>> /\ sends[Len(sends)].outcome = "pending"

\* every accepted send made one request, and appended its user message and
\* then, once settled, its one assistant message
sendsRight ==
  /\ nextId - 1 = Len(sends)
  /\ Cardinality({r.id : r \in inflight}) = Cardinality(inflight)
  /\ \A r \in inflight : pending /\ r.id = Len(sends)
  /\ \A i \in DOMAIN sends : sentRight(i)
  /\ isLoading <=> pending

\* C11: every accepted send (input not blank, not loading) makes exactly one
\* request, appends exactly one user message and then exactly one assistant
\* message, whose text is the server's reply when the response is OK and the
\* reply of generateMockResponse for the input when the response is not OK or
\* the call throws; the loading flag is set while the send awaits its answer
\* and every send ends with the flag cleared, given that a fetch settles.
C11_SendAppendsPair == []sendsRight /\ (isLoading ~> ~isLoading)

\* both replies of one input have been shown: the server's for the first
\* send, the local one for the second, whose response was not OK
C11_Witness ==
  /\ Len(sends) = 2
  /\ sends[1].input = sends[2].input
  /\ sends[1].outcome = "ok"
  /\ sends[2].outcome = "notOk"
  /\ sends[1].appended[2].text # sends[2].appended[2].text
  /\ sends[2].appended[2].text = mockChestPain
  /\ ~isLoading

\* C14: after resetConversation the list is the greeting alone, and stays so
\* until the next send or upload, whatever happens to a chat request that was
\* in flight when reset was pressed.
C14_ResetLeavesGreeting ==
  afterReset => uiMessages = <<greetingMessage>>
====
